---- MODULE Spec2Model ----
(***************************************************************************)
(* The tokenizer of the Lox front end (src/lexer) and the tokenize command *)
(* of main.rs, as a state machine.  One step of the machine is one         *)
(* iteration of the loop of Lexer::tokenize, followed by the steps of main *)
(* that print the tokens and choose the exit status.                       *)
(*                                                                         *)
(* A character is a one-character string; the source text is a sequence of *)
(* characters (Lexer::new collects input.chars()).  The string "U00E9"     *)
(* stands for the single character U+00E9, whose UTF-8 encoding has two    *)
(* bytes.  Scan positions are 0-based, as in the code.                     *)
(***************************************************************************)
EXTENDS Integers, Sequences, FiniteSets, TLC

\* ------------------------------------------------------------------ bounds

\* Every source text over Alphabet of at most MaxLen characters is an input.
MaxLen == 3

\* ------------------------------------------------------------- characters

Quote == "\""
NewLine == "\n"
EAcute == "U00E9"

LowerCase ==
  {"a","b","c","d","e","f","g","h","i","j","k","l","m",
   "n","o","p","q","r","s","t","u","v","w","x","y","z"}

UpperCase ==
  {"A","B","C","D","E","F","G","H","I","J","K","L","M",
   "N","O","P","Q","R","S","T","U","V","W","X","Y","Z"}

Digits == {"0","1","2","3","4","5","6","7","8","9"}

\* char::is_digit(10)
IsDigit(c) == c \in Digits

\* char::to_digit(10) on a decimal digit
ToDigit(c) ==
  CASE c = "0" -> 0 [] c = "1" -> 1 [] c = "2" -> 2 [] c = "3" -> 3
    [] c = "4" -> 4 [] c = "5" -> 5 [] c = "6" -> 6 [] c = "7" -> 7
    [] c = "8" -> 8 [] c = "9" -> 9

\* u32::to_string of one decimal digit
DigitChar(d) == <<"0","1","2","3","4","5","6","7","8","9">>[d + 1]

\* The closure of the take_while of IdentifierToken::from_char_slice.
IsIdentChar(c) == c \in LowerCase \cup UpperCase \cup Digits \cup {"_"}

\* char::len_utf8: the bytes a character takes in a String.
Utf8Len(c) == IF c = EAcute THEN 2 ELSE 1

\* str::len: the length of a String in bytes.
RECURSIVE StrLen(_)
StrLen(s) == IF s = <<>> THEN 0 ELSE Utf8Len(Head(s)) + StrLen(Tail(s))

\* Option<T>: None is the empty sequence, Some(v) the sequence <<v>>.
None == <<>>
Some(v) == <<v>>

\* s[from..] of a slice, from 0-based.
SliceFrom(s, from) == SubSeq(s, from + 1, Len(s))

\* s.iter().take_while(|x| x.is_digit(10)): the longest prefix of digits.
RECURSIVE TakeDigits(_)
TakeDigits(s) ==
  IF s = <<>> \/ ~IsDigit(Head(s)) THEN <<>> ELSE <<Head(s)>> \o TakeDigits(Tail(s))

\* The take_while of IdentifierToken::from_char_slice: the longest prefix of
\* identifier characters.
RECURSIVE TakeIdentChars(_)
TakeIdentChars(s) ==
  IF s = <<>> \/ ~IsIdentChar(Head(s)) THEN <<>>
  ELSE <<Head(s)>> \o TakeIdentChars(Tail(s))

HasChar(s, c) == \E i \in 1..Len(s) : s[i] = c

\* s.iter().position(|x| x == c): Some(the 0-based index of the first c).
Position(s, c) ==
  IF HasChar(s, c)
  THEN Some(CHOOSE i \in 0..(Len(s) - 1) :
              s[i + 1] = c /\ \A j \in 0..(i - 1) : s[j + 1] # c)
  ELSE None

\* Whether the slice s starts with the characters of w.
StartsWith(s, w) == Len(s) >= Len(w) /\ SubSeq(s, 1, Len(w)) = w

\* -------------------------------------------------------- u32 arithmetic
\* A u32 is the pair <<hi, lo>> of its 16-bit halves, value hi * 2^16 + lo.
\* Each operation yields the wrapped result v (what a build without overflow
\* checks computes) and ovf, whether the true result left the u32 range
\* (where a build with overflow checks panics).

U32Half == 65536

U32Zero == <<0, 0>>
U32One == <<0, 1>>

\* k * p for a u32 k <= 10
U32MulSmall(k, p) ==
  LET lo == k * p[2]
      hi == k * p[1] + (lo \div U32Half)
  IN [v |-> <<hi % U32Half, lo % U32Half>>, ovf |-> hi >= U32Half]

\* a + b
U32Add(a, b) ==
  LET lo == a[2] + b[2]
      hi == a[1] + b[1] + (lo \div U32Half)
  IN [v |-> <<hi % U32Half, lo % U32Half>>, ovf |-> hi >= U32Half]

\* 10_u32.pow(idx)
RECURSIVE Pow10(_)
Pow10(idx) ==
  IF idx = 0 THEN [v |-> U32One, ovf |-> FALSE]
  ELSE LET r == Pow10(idx - 1)
           m == U32MulSmall(10, r.v)
       IN [v |-> m.v, ovf |-> r.ovf \/ m.ovf]

\* digits.iter().rev().enumerate().map(|(idx, i)| i * 10_u32.pow(idx))
\*       .fold(0, |acc, x| acc + x), from the term of index idx on.
RECURSIVE FoldDigits(_, _, _)
FoldDigits(digits, idx, acc) ==
  IF idx >= Len(digits) THEN acc
  ELSE LET i == digits[Len(digits) - idx]
           p == Pow10(idx)
           x == U32MulSmall(i, p.v)
           s == U32Add(acc.v, x.v)
       IN FoldDigits(digits, idx + 1,
                     [v |-> s.v, ovf |-> acc.ovf \/ p.ovf \/ x.ovf \/ s.ovf])

DigitsValue(digits) == FoldDigits(digits, 0, [v |-> U32Zero, ovf |-> FALSE])

\* u32::to_string
RECURSIVE U32ToString(_)
U32ToString(n) ==
  LET qh == n[1] \div 10
      t == (n[1] % 10) * U32Half + n[2]
      q == <<qh, t \div 10>>
      r == t % 10
  IN IF q = U32Zero THEN <<DigitChar(r)>> ELSE U32ToString(q) \o <<DigitChar(r)>>

\* ------------------------------------------------------------ Token model
\* A Token is a record whose field cat is the variant of the enum Token.

\* AppResult<T>
Ok(v) == [ok |-> TRUE, val |-> v]
Err(e) == [ok |-> FALSE, err |-> e]

UnexpectedChar(line, token) == [kind |-> "UnexpectedChar", line |-> line, token |-> token]
UnterminatedString(line) == [kind |-> "UnterminatedString", line |-> line]

\* The variants of SingleCharToken with their character and printed name.
SingleCharTable ==
  << [ch |-> "(", name |-> "LEFT_PAREN"],  [ch |-> ")", name |-> "RIGHT_PAREN"],
     [ch |-> "{", name |-> "LEFT_BRACE"],  [ch |-> "}", name |-> "RIGHT_BRACE"],
     [ch |-> "*", name |-> "STAR"],        [ch |-> ".", name |-> "DOT"],
     [ch |-> ",", name |-> "COMMA"],       [ch |-> "+", name |-> "PLUS"],
     [ch |-> "-", name |-> "MINUS"],       [ch |-> "/", name |-> "SLASH"],
     [ch |-> ";", name |-> "SEMICOLON"],   [ch |-> "=", name |-> "EQUAL"],
     [ch |-> "!", name |-> "BANG"],        [ch |-> "<", name |-> "LESS"],
     [ch |-> ">", name |-> "GREATER"] >>

SingleCharToken(i) ==
  [cat |-> "SingleCharacter", name |-> SingleCharTable[i].name, text |-> <<SingleCharTable[i].ch>>]

SingleCharFromCharSlice(s) ==
  IF s = <<>> THEN None
  ELSE LET hit == {i \in 1..Len(SingleCharTable) : SingleCharTable[i].ch = s[1]}
       IN IF hit = {} THEN None ELSE Some(SingleCharToken(CHOOSE i \in hit : TRUE))

\* The variants of MultiCharToken with their first character and printed name.
MultiCharTable ==
  << [ch |-> "=", name |-> "EQUAL_EQUAL"],  [ch |-> "!", name |-> "BANG_EQUAL"],
     [ch |-> "<", name |-> "LESS_EQUAL"],   [ch |-> ">", name |-> "GREATER_EQUAL"] >>

MultiCharToken(i) ==
  [cat |-> "MultiCharToken", name |-> MultiCharTable[i].name, text |-> <<MultiCharTable[i].ch, "=">>]

MultiCharFromCharSlice(s) ==
  IF Len(s) < 2 \/ s[2] # "=" THEN None
  ELSE LET hit == {i \in 1..Len(MultiCharTable) : MultiCharTable[i].ch = s[1]}
       IN IF hit = {} THEN None ELSE Some(MultiCharToken(CHOOSE i \in hit : TRUE))

\* IgnoredToken: LineBreak, Tab, Space, and Comment(len).
IgnoredToken(name, len) == [cat |-> "Ignored", name |-> name, len |-> len]

IgnoredFromCharSlice(s) ==
  IF s = <<>> THEN None
  ELSE IF s[1] = NewLine THEN Some(IgnoredToken("LineBreak", 1))
  ELSE IF s[1] = "\t" THEN Some(IgnoredToken("Tab", 1))
  ELSE IF s[1] = " " THEN Some(IgnoredToken("Space", 1))
  ELSE IF Len(s) >= 2 /\ s[1] = "/" /\ s[2] = "/"
       THEN LET p == Position(s, NewLine)
            IN Some(IgnoredToken("Comment", IF p = None THEN Len(s) ELSE p[1]))
  ELSE None

\* StringToken(content)
StringToken(content) == [cat |-> "String", content |-> content]

\* StringToken::from_char_slice, had it taken a quote with no closing quote
\* for "no string here" instead of an error.
StringFromCharSliceNoError(s, line) ==
  IF s = <<>> \/ s[1] # Quote THEN Ok(None)
  ELSE LET p == Position(Tail(s), Quote)
       IN IF p = None THEN Ok(None)
          ELSE LET end_pos == p[1] + 1
               IN Ok(Some(StringToken(SubSeq(s, 2, end_pos))))

StringFromCharSlice(s, line) ==
  IF s = <<>> \/ s[1] # Quote THEN Ok(None)
  ELSE LET p == Position(Tail(s), Quote)
       IN IF p = None THEN Err(UnterminatedString(line))
          ELSE LET end_pos == p[1] + 1
               IN Ok(Some(StringToken(SubSeq(s, 2, end_pos))))

\* NumberToken { integer, integer_length, decimal }: decimal is None or
\* Some of the pair <<the digits as a string, their value>>.
NumberToken(integer, integer_length, decimal) ==
  [cat |-> "Number", integer |-> integer, integer_length |-> integer_length,
   decimal |-> decimal]

\* The digits after the `.` that follows the integer part, if there is one.
RawDecimalChars(s) ==
  LET n == Len(TakeDigits(s))
  IN IF Len(s) > n /\ s[n + 1] = "." THEN TakeDigits(SliceFrom(s, n + 1))
     ELSE <<>>

ToDigits(chars) == [i \in 1..Len(chars) |-> ToDigit(chars[i])]

\* NumberToken::from_char_slice, had it taken the dot after the integer part
\* into the number whether or not a digit follows it.
NumberFromCharSliceTrailingDot(s) ==
  IF s = <<>> \/ ~IsDigit(s[1]) THEN None
  ELSE LET raw_integer_chars == TakeDigits(s)
           integer == DigitsValue(ToDigits(raw_integer_chars)).v
           raw_decimal_chars == RawDecimalChars(s)
       IN IF ~(Len(s) > Len(raw_integer_chars) /\ s[Len(raw_integer_chars) + 1] = ".")
          THEN Some(NumberToken(integer, Len(raw_integer_chars), None))
          ELSE Some(NumberToken(integer, Len(raw_integer_chars),
                     Some(<<raw_decimal_chars,
                            DigitsValue(ToDigits(raw_decimal_chars)).v>>)))

\* The token of a build without overflow checks.
NumberFromCharSlice(s) ==
  IF s = <<>> \/ ~IsDigit(s[1]) THEN None
  ELSE LET raw_integer_chars == TakeDigits(s)
           integer == DigitsValue(ToDigits(raw_integer_chars)).v
           raw_decimal_chars == RawDecimalChars(s)
       IN IF raw_decimal_chars = <<>>
          THEN Some(NumberToken(integer, Len(raw_integer_chars), None))
          ELSE Some(NumberToken(integer, Len(raw_integer_chars),
                     Some(<<raw_decimal_chars,
                            DigitsValue(ToDigits(raw_decimal_chars)).v>>)))

\* Whether a build with overflow checks panics in NumberToken::from_char_slice.
NumberOverflows(s) ==
  /\ s # <<>>
  /\ IsDigit(s[1])
  /\ \/ DigitsValue(ToDigits(TakeDigits(s))).ovf
     \/ DigitsValue(ToDigits(RawDecimalChars(s))).ovf

\* IdentifierToken(text)
IdentifierToken(text) == [cat |-> "Identifier", text |-> text]

IdentifierFromCharSlice(s) ==
  LET chs == TakeIdentChars(s)
  IN IF chs # <<>> /\ ~IsDigit(chs[1]) THEN Some(IdentifierToken(chs)) ELSE None

\* The variants of KeywordToken, in the order from_char_slice tries them, with
\* the word each matches and its printed name.
KeywordTable ==
  << [kw |-> "KAnd",    word |-> <<"a","n","d">>,             name |-> "AND"],
     [kw |-> "KClass",  word |-> <<"c","l","a","s","s">>,     name |-> "CLASS"],
     [kw |-> "KElse",   word |-> <<"e","l","s","e">>,         name |-> "ELSE"],
     [kw |-> "KFalse",  word |-> <<"f","a","l","s","e">>,     name |-> "FALSE"],
     [kw |-> "KFor",    word |-> <<"f","o","r">>,             name |-> "FOR"],
     [kw |-> "KFun",    word |-> <<"f","u","n">>,             name |-> "FUN"],
     [kw |-> "KIf",     word |-> <<"i","f">>,                 name |-> "IF"],
     [kw |-> "KNil",    word |-> <<"n","i","l">>,             name |-> "NIL"],
     [kw |-> "KOr",     word |-> <<"o","r">>,                 name |-> "OR"],
     [kw |-> "KPrint",  word |-> <<"p","r","i","n","t">>,     name |-> "PRINT"],
     [kw |-> "KReturn", word |-> <<"r","e","t","u","r","n">>, name |-> "RETURN"],
     [kw |-> "KSuper",  word |-> <<"s","u","p","e","r">>,     name |-> "SUPER"],
     [kw |-> "KThis",   word |-> <<"t","h","i","s">>,         name |-> "THIS"],
     [kw |-> "KTrue",   word |-> <<"t","r","u","e">>,         name |-> "TRUE"],
     [kw |-> "KVar",    word |-> <<"v","a","r">>,             name |-> "VAR"],
     [kw |-> "KWhile",  word |-> <<"w","h","i","l","e">>,     name |-> "WHILE"] >>

KeywordToken(i) ==
  [cat |-> "Keyword", kw |-> KeywordTable[i].kw, name |-> KeywordTable[i].name,
   text |-> KeywordTable[i].word]

\* The first arm of the if/else-if chain whose word the slice starts with.
KeywordFromCharSlice(s) ==
  LET hit == {i \in 1..Len(KeywordTable) : StartsWith(s, KeywordTable[i].word)}
  IN IF hit = {} THEN None
     ELSE Some(KeywordToken(CHOOSE i \in hit : \A j \in hit : i <= j))

\* Token::length, dispatching to the length of each variant.
TokenLength(t) ==
  CASE t.cat = "SingleCharacter" -> 1
    [] t.cat = "MultiCharToken" -> 2
    [] t.cat = "Ignored" -> t.len
    [] t.cat = "String" -> StrLen(t.content) + 2
    [] t.cat = "Number" ->
         IF t.decimal = None THEN t.integer_length
         ELSE t.integer_length + 1 + StrLen(t.decimal[1][1])
    [] t.cat = "Identifier" -> StrLen(t.text)
    [] t.cat = "Keyword" -> Len(t.text)

\* Token::ignored, had it held for comments only.
TokenIgnoredCommentOnly(t) == t.cat = "Ignored" /\ t.name = "Comment"

\* Token::ignored
TokenIgnored(t) == t.cat = "Ignored"

\* NumberToken::info: the lexeme and the literal text of a number.
NumberLexeme(t) ==
  IF t.decimal = None THEN U32ToString(t.integer)
  ELSE U32ToString(t.integer) \o <<".">> \o t.decimal[1][1]

NumberLiteral(t) ==
  IF t.decimal = None THEN U32ToString(t.integer) \o <<".", "0">>
  ELSE U32ToString(t.integer) \o <<".">> \o U32ToString(t.decimal[1][2])

\* Token::info of a token that is not ignored: <<name, lexeme, literal>>.
TokenInfo(t) ==
  CASE t.cat = "SingleCharacter" -> <<t.name, t.text, None>>
    [] t.cat = "MultiCharToken" -> <<t.name, t.text, None>>
    [] t.cat = "String" ->
         <<"STRING", <<Quote>> \o t.content \o <<Quote>>, Some(t.content)>>
    [] t.cat = "Number" -> <<"NUMBER", NumberLexeme(t), Some(NumberLiteral(t))>>
    [] t.cat = "Identifier" -> <<"IDENTIFIER", t.text, None>>
    [] t.cat = "Keyword" -> <<t.name, t.text, None>>

\* Token::try_consume, had it tried the single-character tokens before the
\* multi-character and the ignored ones.
TryConsumeSingleFirst(s, line) ==
  IF s = <<>> THEN Ok(None)
  ELSE IF KeywordFromCharSlice(s) # None THEN Ok(KeywordFromCharSlice(s))
  ELSE IF ~StringFromCharSlice(s, line).ok THEN StringFromCharSlice(s, line)
  ELSE IF StringFromCharSlice(s, line).val # None THEN StringFromCharSlice(s, line)
  ELSE IF NumberFromCharSlice(s) # None THEN Ok(NumberFromCharSlice(s))
  ELSE IF IdentifierFromCharSlice(s) # None THEN Ok(IdentifierFromCharSlice(s))
  ELSE IF SingleCharFromCharSlice(s) # None THEN Ok(SingleCharFromCharSlice(s))
  ELSE IF MultiCharFromCharSlice(s) # None THEN Ok(MultiCharFromCharSlice(s))
  ELSE IF IgnoredFromCharSlice(s) # None THEN Ok(IgnoredFromCharSlice(s))
  ELSE Ok(None)

\* Token::try_consume: the categories in the order the code tries them.
TryConsume(s, line) ==
  IF s = <<>> THEN Ok(None)
  ELSE IF KeywordFromCharSlice(s) # None THEN Ok(KeywordFromCharSlice(s))
  ELSE IF ~StringFromCharSlice(s, line).ok THEN StringFromCharSlice(s, line)
  ELSE IF StringFromCharSlice(s, line).val # None THEN StringFromCharSlice(s, line)
  ELSE IF NumberFromCharSlice(s) # None THEN Ok(NumberFromCharSlice(s))
  ELSE IF IdentifierFromCharSlice(s) # None THEN Ok(IdentifierFromCharSlice(s))
  ELSE IF MultiCharFromCharSlice(s) # None THEN Ok(MultiCharFromCharSlice(s))
  ELSE IF IgnoredFromCharSlice(s) # None THEN Ok(IgnoredFromCharSlice(s))
  ELSE IF SingleCharFromCharSlice(s) # None THEN Ok(SingleCharFromCharSlice(s))
  ELSE Ok(None)

\* Whether try_consume reaches NumberToken::from_char_slice on s and the
\* arithmetic there overflows.
TryConsumeOverflows(s, line) ==
  /\ s # <<>>
  /\ KeywordFromCharSlice(s) = None
  /\ StringFromCharSlice(s, line).ok
  /\ StringFromCharSlice(s, line).val = None
  /\ NumberOverflows(s)

\* ------------------------------------------------------------ the inputs

\* The characters of the exhaustively enumerated inputs: identifier
\* characters that spell the reserved word `or`, two digits, the dot, the
\* quote, operators with a two-character form, the slash, the line break, a
\* character of no category, and a character of two UTF-8 bytes.
Alphabet ==
  {"o", "r", "0", "5", ".", Quote, "=", "!", "/", NewLine, "@", EAcute}

SeqsUpTo(S, n) == UNION {[1..k -> S] : k \in 0..n}

\* Longer source texts: the examples of the documentation and one input for
\* each case that needs more than MaxLen characters.
Samples ==
  {
     <<"c","l","a","s","s","a","b","l","e">>,   \* a reserved word followed by more identifier characters
     <<"o","r","c","h","i","d">>,
     <<"f","o","r","m","a","t">>,
     <<"1","2","3",".">>,   \* a digit run and a trailing dot
     <<Quote,"a","b","c">>,   \* an unterminated string
     <<"(","1"," ","+"," ","2",")"," ","*"," ","3">>,
     <<"(",")","{","}",";",",","+","-","*","/">>,   \* every single-character token but the comparison ones
     <<"a",">","=","b",">","c">>,
     <<"a","<","=","b","<","c">>,
     <<"!","="," ","="," ","!">>,
     <<Quote,NewLine,Quote,"@">>,   \* a string over two lines, then an unexpected character
     <<Quote,NewLine,Quote,Quote>>,   \* a string over two lines, then an unterminated string
     <<Quote,EAcute,Quote,"+">>,   \* a string with a two-byte character
     <<Quote,EAcute,Quote,NewLine,"@">>,
     <<"0","0","7">>,   \* leading zeros
     <<"1",".","0","5">>,   \* a fraction with a leading zero
     <<"1",".","5","0">>,
     <<"/","/"," ","c",NewLine,"@">>,   \* a comment up to the line break
     <<"\t","_","x">>,
     <<"4","2","9","4","9","6","7","2","9","5">>,   \* the largest u32
     <<"4","2","9","4","9","6","7","2","9","6">>,   \* 2^32
     <<"5","0","0","0","0","0","0","0","0","0">>,   \* the leading digit times 10^9 leaves the u32 range
     <<"0","0","0","0","0","0","0","0","0","0","0">>,   \* eleven digits: 10^10 leaves the u32 range
     <<"0",".","4","2","9","4","9","6","7","2","9","6">>
  }

Inputs == SeqsUpTo(Alphabet, MaxLen) \cup Samples

\* ------------------------------------------------------- the state machine

VARIABLES
  input,            \* Lexer.input: the characters of the source text
  pos,              \* Lexer.pos: the scan position
  line_idx,         \* Lexer.line_idx
  tokens,           \* Lexer.tokens
  has_error,        \* Lexer.has_error
  pc,               \* where the run is: "tokenize", "report", "print", "exit",
                    \* "exited", "panicked"
  error,            \* the Err that tokenize returned to main, if any
  stderr,           \* the diagnostics written to standard error, in order
  stdout,           \* the lines written to standard output, in order
  exit_code,        \* the exit status of the process, once it has one
  last,             \* history: the position and result of the last try_consume
  spans,            \* history: <<start, length>> of each token of `tokens`
  diag_at           \* history: the scan position of each entry of `stderr`

\* The state of a Parser and of its call of Parser::parse.
VARIABLES
  p_input,          \* Parser.input: the tokens to parse
  p_pos,            \* Parser.pos
  begin,            \* Parser.begin
  output,           \* Parser.output
  curr,             \* Parser.curr
  with_tokens,      \* the local with_tokens of Parser::parse
  p_pc,             \* where the parser is: "idle", "parse", "ok", "err",
                    \* "panicked", "printed"
  p_error,          \* the message of the error or panic that ended parse
  p_stdout          \* the lines Parser::print_info has written

lvars ==
  <<input, pos, line_idx, tokens, has_error, pc, error,
    stderr, stdout, exit_code, last, spans, diag_at>>

pvars ==
  <<p_input, p_pos, begin, output, curr, with_tokens, p_pc, p_error, p_stdout>>

vars == <<lvars, pvars>>

\* No Parser has been made.
ParserIdle ==
  /\ p_input = <<>>
  /\ p_pos = 0
  /\ begin = 0
  /\ output = <<>>
  /\ curr = <<>>
  /\ with_tokens = None
  /\ p_pc = "idle"
  /\ p_error = None
  /\ p_stdout = <<>>

\* Lexer.length
length == Len(input)

\* Lexer::new, and the tokens.clear() that opens Lexer::tokenize.
Init ==
  /\ input \in Inputs
  /\ pos = 0
  /\ line_idx = 1
  /\ tokens = <<>>
  /\ has_error = FALSE
  /\ pc = "tokenize"
  /\ error = None
  /\ stderr = <<>>
  /\ stdout = <<>>
  /\ exit_code = None
  /\ last = [at |-> 0, res |-> "Start"]
  /\ spans = <<>>
  /\ diag_at = <<>>
  /\ ParserIdle

\* Lexer::ended
Ended == pos >= length

\* Lexer::peek
Peek == IF Ended THEN None ELSE Some(input[pos + 1])

\* &self.input[self.pos..]
Rest == SliceFrom(input, pos)

\* Whether the u32 arithmetic of the call of Token::try_consume at the scan
\* position overflows.  What follows depends on the build: with overflow
\* checks the call panics (PanicOverflow), without them the arithmetic wraps
\* and the call returns a token (Consume).
Overflows == TryConsumeOverflows(Rest, line_idx)

\* One iteration of the loop of tokenize, arm Some(t): a token matched.
Consume ==
  /\ pc = "tokenize"
  /\ Peek # None
  /\ LET r == TryConsume(Rest, line_idx)
     IN /\ r.ok
        /\ r.val # None
        /\ LET t == r.val[1]
           IN /\ line_idx' = IF t.cat = "Ignored" /\ t.name = "LineBreak"
                              THEN line_idx + 1 ELSE line_idx
              /\ pos' = pos + TokenLength(t)
              /\ tokens' = IF ~TokenIgnored(t) THEN Append(tokens, t) ELSE tokens
              /\ spans' = IF ~TokenIgnored(t)
                           THEN Append(spans, <<pos, TokenLength(t)>>) ELSE spans
              /\ last' = [at |-> pos, res |-> "Some", tok |-> t]
  /\ UNCHANGED pvars
  /\ UNCHANGED <<input, has_error, pc, error, stderr, stdout,
                 exit_code, diag_at>>

\* The arm None, had it advanced by the bytes of the character.
SkipUnexpectedByBytes ==
  /\ pc = "tokenize"
  /\ Peek # None
  /\ LET r == TryConsume(Rest, line_idx)
     IN /\ r.ok
        /\ r.val = None
  /\ has_error' = TRUE
  /\ stderr' = Append(stderr, UnexpectedChar(line_idx, Peek[1]))
  /\ diag_at' = Append(diag_at, pos)
  /\ pos' = pos + Utf8Len(Peek[1])
  /\ last' = [at |-> pos, res |-> "None"]
  /\ UNCHANGED pvars
  /\ UNCHANGED <<input, line_idx, tokens, pc, error, stdout,
                 exit_code, spans>>

\* One iteration of the loop of tokenize, arm None: an unknown character.
SkipUnexpected ==
  /\ pc = "tokenize"
  /\ Peek # None
  /\ LET r == TryConsume(Rest, line_idx)
     IN /\ r.ok
        /\ r.val = None
  /\ has_error' = TRUE
  /\ stderr' = Append(stderr, UnexpectedChar(line_idx, Peek[1]))
  /\ diag_at' = Append(diag_at, pos)
  /\ pos' = pos + 1
  /\ last' = [at |-> pos, res |-> "None"]
  /\ UNCHANGED pvars
  /\ UNCHANGED <<input, line_idx, tokens, pc, error, stdout,
                 exit_code, spans>>

\* The `?` of tokenize on an Err of try_consume: tokenize returns the Err.
FailUnterminated ==
  /\ pc = "tokenize"
  /\ Peek # None
  /\ LET r == TryConsume(Rest, line_idx)
     IN /\ ~r.ok
        /\ error' = Some(r.err)
  /\ pc' = "report"
  /\ last' = [at |-> pos, res |-> "Err"]
  /\ UNCHANGED pvars
  /\ UNCHANGED <<input, pos, line_idx, tokens, has_error, stderr, stdout,
                 exit_code, spans, diag_at>>

\* The arithmetic of NumberToken::from_char_slice overflows and the build has
\* overflow checks: the process panics, with exit status 101.
PanicOverflow ==
  /\ pc = "tokenize"
  /\ Peek # None
  /\ Overflows
  /\ pc' = "panicked"
  /\ exit_code' = Some(101)
  /\ last' = [at |-> pos, res |-> "Panic"]
  /\ UNCHANGED pvars
  /\ UNCHANGED <<input, pos, line_idx, tokens, has_error, error, stderr,
                 stdout, spans, diag_at>>

\* peek() is None: the loop ends and tokenize returns Ok(()).
LoopEnd ==
  /\ pc = "tokenize"
  /\ Peek = None
  /\ pc' = "print"
  /\ UNCHANGED pvars
  /\ UNCHANGED <<input, pos, line_idx, tokens, has_error, error, stderr,
                 stdout, exit_code, last, spans, diag_at>>

\* main, arm Err(e): eprintln!("{}", e).
ReportError ==
  /\ pc = "report"
  /\ stderr' = Append(stderr, error[1])
  /\ diag_at' = Append(diag_at, last.at)
  /\ pc' = "print"
  /\ UNCHANGED pvars
  /\ UNCHANGED <<input, pos, line_idx, tokens, has_error, error, stdout,
                 exit_code, last, spans>>

Null == <<"n", "u", "l", "l">>

\* The line println!("{} {} {}", name, literal, value.unwrap_or("null")), as
\* its three fields.
TokenLine(t) ==
  LET info == TokenInfo(t)
  IN <<info[1], info[2], IF info[3] = None THEN Null ELSE info[3][1]>>

\* println!("EOF  null")
EofLine == <<"EOF", <<>>, Null>>

\* Lexer::print_tokens, called by main in both arms.
PrintTokens ==
  /\ pc = "print"
  /\ stdout' = stdout \o [i \in 1..Len(tokens) |-> TokenLine(tokens[i])] \o <<EofLine>>
  /\ pc' = "exit"
  /\ UNCHANGED pvars
  /\ UNCHANGED <<input, pos, line_idx, tokens, has_error, error, stderr,
                 exit_code, last, spans, diag_at>>

\* main after print_tokens: exit(65) in the arm Err and when has_error() in
\* the arm Ok, else return Ok(()).
Exit ==
  /\ pc = "exit"
  /\ exit_code' = IF error # None THEN Some(65)
                  ELSE IF has_error THEN Some(65)
                  ELSE Some(0)
  /\ pc' = "exited"
  /\ UNCHANGED pvars
  /\ UNCHANGED <<input, pos, line_idx, tokens, has_error, error, stderr,
                 stdout, last, spans, diag_at>>

Next ==
  \/ Consume
  \/ SkipUnexpected
  \/ FailUnterminated
  \/ PanicOverflow
  \/ LoopEnd
  \/ ReportError
  \/ PrintTokens
  \/ Exit

Spec == Init /\ [][Next]_vars

\* ------------------------------------------------------------- the claims

\* The character at the scan position and the one after it.
Cur == input[pos + 1]
HasAfter == pos + 2 <= length
After == input[pos + 2]

\* Whether the loop of tokenize is about to run one more iteration.
Scanning == pc = "tokenize" /\ ~Ended

\* Whether the run is over without a panic.
Returned == pc \in {"report", "print", "exit", "exited"}

\* The source characters from 0-based position from, count of them; the
\* empty sequence when they are not all inside the input.
Source(from, count) ==
  IF from + count <= length THEN SubSeq(input, from + 1, from + count) ELSE <<>>

\* C1: on an Ok return of tokenize no character was dropped: the advances of
\* the scan position sum to the input length, so the position ends equal to
\* the input length, and it never passes it.
C1_NoCharDropped ==
  /\ pos <= length
  /\ (Returned /\ error = None) => pos = length

\* C2: a Keyword token is emitted only when the maximal run of identifier
\* characters at the scan position equals the reserved word.
C2_KeywordBoundary ==
  (last.res = "Some" /\ last.tok.cat = "Keyword")
    => TakeIdentChars(SliceFrom(input, last.at)) = last.tok.text

\* The lines print_tokens writes for the token list ts.
Printed(ts) == [i \in 1..Len(ts) |-> TokenLine(ts[i])] \o <<EofLine>>

\* C3, the step: at an opening quote with no later quote, tokenize returns
\* the UnterminatedString error of the current line and leaves the token list
\* and the scan position as they are.
C3_Step ==
  (Scanning /\ Cur = Quote /\ ~HasChar(SliceFrom(input, pos + 1), Quote))
    => /\ pc' = "report"
       /\ error' = Some(UnterminatedString(line_idx))
       /\ tokens' = tokens
       /\ spans' = spans
       /\ pos' = pos

\* C3, the outcome: once tokenize has returned an error, the error is at an
\* opening quote, every token of the list was consumed before that quote, in
\* source order, and the list that is printed is that list.
C3_Outcome ==
  (Returned /\ error # None)
    => /\ error[1].kind = "UnterminatedString"
       /\ input[last.at + 1] = Quote
       /\ Len(spans) = Len(tokens)
       /\ \A i \in 1..Len(spans) : spans[i][1] < last.at
       /\ \A i \in 1..(Len(spans) - 1) : spans[i][1] < spans[i + 1][1]
       /\ pc \in {"exit", "exited"} => stdout = Printed(tokens)

\* C3: an unterminated string is fatal for the scan: tokenize returns the
\* UnterminatedString error, emits no token for the literal or after it, and
\* the tokens produced before the opening quote are the ones printed.
C3_UnterminatedFatal == [][C3_Step]_vars /\ []C3_Outcome

\* C3 witness: a run that ended on an unterminated string after producing a
\* token, with the tokens printed.
C3_Witness ==
  /\ pc = "exited"
  /\ error # None
  /\ Len(tokens) >= 1
  /\ stdout = Printed(tokens)

\* The tokens tokenize keeps when it scans s from 0-based position p, up to
\* the end of s or to a fatal error.
RECURSIVE ScanFrom(_, _)
ScanFrom(s, p) ==
  IF p >= Len(s) THEN <<>>
  ELSE LET r == TryConsume(SliceFrom(s, p), 1)
       IN IF ~r.ok THEN <<>>
          ELSE IF r.val = None THEN ScanFrom(s, p + 1)
          ELSE (IF TokenIgnored(r.val[1]) THEN <<>> ELSE r.val) \o
               ScanFrom(s, p + TokenLength(r.val[1]))

\* The tokens of the list that were consumed after 0-based position p.
TokensAfter(p) ==
  LET n == Cardinality({i \in 1..Len(spans) : spans[i][1] <= p})
  IN SubSeq(tokens, n + 1, Len(tokens))

\* C4, the step: a character of no category adds one UnexpectedChar
\* diagnostic with the current line and the character, sets the error flag,
\* advances the position by one, and leaves the token list and the line
\* counter as they are; the scan goes on.
C4_Step ==
  (Scanning /\ TryConsume(Rest, line_idx) = Ok(None))
    => /\ stderr' = Append(stderr, UnexpectedChar(line_idx, Cur))
       /\ has_error'
       /\ pos' = pos + 1
       /\ tokens' = tokens
       /\ line_idx' = line_idx
       /\ pc' = "tokenize"

\* C4, the resumption: when the scan is over, the tokens after each
\* unexpected character are the tokens of a scan started right after it.
C4_Resumes ==
  Returned =>
    \A k \in 1..Len(stderr) :
      stderr[k].kind = "UnexpectedChar"
        => TokensAfter(diag_at[k]) = ScanFrom(input, diag_at[k] + 1)

\* C4: an unexpected character is recoverable: one diagnostic, the error
\* flag, an advance of exactly one, and the scan resumes right after it.
C4_UnexpectedRecoverable == [][C4_Step]_vars /\ []C4_Resumes

\* C4 witness: a finished run with two UnexpectedChar diagnostics and a token
\* produced after the first of them.
C4_Witness ==
  /\ pc = "exited"
  /\ Len(stderr) >= 2
  /\ stderr[1].kind = "UnexpectedChar"
  /\ stderr[2].kind = "UnexpectedChar"
  /\ TokensAfter(diag_at[1]) # <<>>

\* C5: the exit status of a tokenize run is 65 if a diagnostic occurred and 0
\* otherwise, and the EOF line is printed, after the tokens, before the
\* process exits.
C5_ExitStatus ==
  exit_code # None
    => /\ stdout = Printed(tokens)
       /\ exit_code = IF stderr # <<>> THEN Some(65) ELSE Some(0)

\* The number of line breaks before 0-based position p of the input.
LineBreaksBefore(p) == Cardinality({i \in 1..p : input[i] = NewLine})

\* C6: the line of every diagnostic is 1 plus the number of line breaks that
\* precede the character it is about (the opening quote, the unexpected
\* character).
C6_DiagnosticLine ==
  \A k \in 1..Len(stderr) : stderr[k].line = 1 + LineBreaksBefore(diag_at[k])

\* The operators that have a two-character form with `=`.
EqualOps == {"=", "!", "<", ">"}

MultiName(c) ==
  CASE c = "=" -> "EQUAL_EQUAL" [] c = "!" -> "BANG_EQUAL"
    [] c = "<" -> "LESS_EQUAL"  [] c = ">" -> "GREATER_EQUAL"

\* C7, `=`, `!`, `<`, `>` followed by `=`: the step emits one multi-character
\* token of the matching kind and consumes both characters.
C7_Pair ==
  (Scanning /\ Cur \in EqualOps /\ HasAfter /\ After = "=")
    => /\ pos' = pos + 2
       /\ Len(tokens') = Len(tokens) + 1
       /\ SubSeq(tokens', 1, Len(tokens)) = tokens
       /\ tokens'[Len(tokens')].cat = "MultiCharToken"
       /\ tokens'[Len(tokens')].name = MultiName(Cur)

\* C7, the single-character token of one of these operators is emitted only
\* when the next character is not `=`.
C7_Single ==
  (Scanning /\ Cur \in EqualOps /\ Len(tokens') = Len(tokens) + 1
     /\ tokens'[Len(tokens')].cat = "SingleCharacter")
    => /\ ~(HasAfter /\ After = "=")
       /\ tokens'[Len(tokens')].text = <<Cur>>
       /\ pos' = pos + 1

\* C7, `/` followed by `/` is consumed as one comment: at least two
\* characters, and no token is emitted.
C7_Comment ==
  (Scanning /\ Cur = "/" /\ HasAfter /\ After = "/")
    => /\ tokens' = tokens
       /\ pos' >= pos + 2
       /\ last'.res = "Some"
       /\ last'.tok.cat = "Ignored"
       /\ last'.tok.name = "Comment"

\* C7: two-character operators are never split, and `//` is a comment, never
\* two SLASH tokens.
C7_NoSplit == [][C7_Pair /\ C7_Single /\ C7_Comment]_vars

\* C7 witness: after an operator with its `=` was consumed as one
\* multi-character token, a lone operator was consumed as a single-character
\* token.
C7_Witness ==
  /\ Len(tokens) >= 2
  /\ tokens[Len(tokens) - 1].cat = "MultiCharToken"
  /\ tokens[Len(tokens)].cat = "SingleCharacter"
  /\ tokens[Len(tokens)].text[1] \in EqualOps
  /\ spans[Len(tokens) - 1][2] = 2

\* The text of a number at the start of s by the grammar: the digit run, and
\* the dot with the digits after it when there is at least one.
NumberText(s) ==
  LET run == TakeDigits(s)
      frac == IF Len(s) >= Len(run) + 2 /\ s[Len(run) + 1] = "."
              THEN TakeDigits(SliceFrom(s, Len(run) + 1)) ELSE <<>>
  IN IF frac = <<>> THEN run ELSE run \o <<".">> \o frac

\* C8, the length: the characters a Number token consumes are one or more
\* digits and a dot only with at least one digit after it.
C8_Length ==
  (last.res = "Some" /\ last.tok.cat = "Number")
    => /\ IsDigit(input[last.at + 1])
       /\ pos = last.at + Len(NumberText(SliceFrom(input, last.at)))
       /\ pos <= length

\* C8, the dot: after a Number token that stopped before a dot, the next
\* token scanned is DOT.
C8_ThenDot ==
  (Scanning /\ last.res = "Some" /\ last.tok.cat = "Number" /\ Cur = ".")
    => /\ last'.res = "Some"
       /\ last'.tok.cat = "SingleCharacter"
       /\ last'.tok.name = "DOT"
       /\ pos' = pos + 1

\* C8: the number boundary: a Number token takes the digit run, and a dot
\* only when a digit follows it; a trailing dot is the next token, DOT.
C8_NumberBoundary == []C8_Length /\ [][C8_ThenDot]_vars

\* C8 witness: a DOT token was scanned right after a Number token that
\* stopped before it.
C8_Witness ==
  /\ Len(tokens) >= 2
  /\ tokens[Len(tokens) - 1].cat = "Number"
  /\ tokens[Len(tokens)].cat = "SingleCharacter"
  /\ tokens[Len(tokens)].name = "DOT"
  /\ spans[Len(tokens)][1] = spans[Len(tokens) - 1][1] + spans[Len(tokens) - 1][2]

\* C9: the lexeme reported for every token of the list is the source
\* substring the token consumed.
C9_LexemeIsSource ==
  \A i \in 1..Len(tokens) :
    /\ spans[i][1] + spans[i][2] <= length
    /\ TokenInfo(tokens[i])[2] = Source(spans[i][1], spans[i][2])

\* The digits of a number text before its dot, and after it.
IntegerDigits(text) == TakeDigits(text)
FractionDigits(text) ==
  IF Len(text) > Len(IntegerDigits(text))
  THEN SliceFrom(text, Len(IntegerDigits(text)) + 1) ELSE <<>>

\* A digit string without its leading zeros, and without its trailing zeros.
RECURSIVE StripLeadingZeros(_)
StripLeadingZeros(d) ==
  IF d # <<>> /\ Head(d) = "0" THEN StripLeadingZeros(Tail(d)) ELSE d

RECURSIVE StripTrailingZeros(_)
StripTrailingZeros(d) ==
  IF d # <<>> /\ d[Len(d)] = "0" THEN StripTrailingZeros(SubSeq(d, 1, Len(d) - 1))
  ELSE d

\* Whether two number texts denote the same decimal value: the same integer
\* digits up to leading zeros and the same fraction digits up to trailing
\* zeros.
SameDecimalValue(a, b) ==
  /\ StripLeadingZeros(IntegerDigits(a)) = StripLeadingZeros(IntegerDigits(b))
  /\ StripTrailingZeros(FractionDigits(a)) = StripTrailingZeros(FractionDigits(b))

\* C10: the literal text of every Number token denotes the decimal value of
\* its lexeme and has at least one fraction digit.
C10_NumberLiteral ==
  \A i \in 1..Len(tokens) :
    tokens[i].cat = "Number"
      => /\ FractionDigits(TokenInfo(tokens[i])[3][1]) # <<>>
         /\ SameDecimalValue(TokenInfo(tokens[i])[3][1], TokenInfo(tokens[i])[2])

\* ---------------------------------------------------------------------------
\* C11: the token list never holds a token for which Token::ignored is true,
\* each kept token starts at a strictly greater source position than the one
\* before it, and so Lexer::print_tokens meets only tokens that Token::info
\* describes: its unreachable!() arm for Token::Ignored is never reached.
InfoCategories ==
  {"SingleCharacter", "MultiCharToken", "String", "Number", "Identifier", "Keyword"}

C11_NoneIgnored == \A i \in 1..Len(tokens) : tokens[i].cat # "Ignored"

C11_Increasing ==
  /\ Len(spans) = Len(tokens)
  /\ \A i \in 1..(Len(spans) - 1) : spans[i][1] < spans[i + 1][1]

C11_InfoReachable == \A i \in 1..Len(tokens) : tokens[i].cat \in InfoCategories

C11_TokenListOrdered ==
  /\ C11_NoneIgnored
  /\ C11_Increasing
  /\ C11_InfoReachable
  /\ pc \in {"exit", "exited"} => stdout = Printed(tokens)

\* Two tokens were kept with ignored characters between them, and printed.
C11_Witness ==
  /\ pc = "exited"
  /\ Len(tokens) >= 2
  /\ stderr = <<>>
  /\ spans[2][1] > spans[1][1] + spans[1][2]
  /\ stdout = Printed(tokens)

\* ---------------------------------------------------------------------------
\* The parser: src/src/parser/mod.rs and src/src/parser/expr.rs.

MaxTokens == 3

\* Token::is_string_or_number
IsStringOrNumber(t) == t.cat = "String" \/ t.cat = "Number"

\* Token::is_binary_op
IsBinaryOp(t) ==
  \/ t.cat = "SingleCharacter"
       /\ t.name \in {"STAR", "PLUS", "MINUS", "SLASH", "EQUAL", "LESS", "GREATER"}
  \/ t.cat = "MultiCharToken"

\* Token::is_unary_op
IsUnaryOp(t) == t.cat = "SingleCharacter" /\ t.name \in {"MINUS", "BANG"}

\* v == &Token::SingleCharacter(SingleCharToken::RightParen)
IsRightParen(t) == t.cat = "SingleCharacter" /\ t.name = "RIGHT_PAREN"

\* The outcome of a call: a value, an Err of anyhow, or a panic.
ROk(v) == [res |-> "Ok", val |-> v, msg |-> ""]
RErr(m) == [res |-> "Err", val |-> None, msg |-> m]
RPanic(m) == [res |-> "Panic", val |-> None, msg |-> m]

\* The messages of todo!(), unreachable!("check before convert") and of an
\* index past the end of a slice.
Todo == "not yet implemented"
Unreachable == "internal error: entered unreachable code: check before convert"
IndexOutOfBounds == "index out of bounds"
SubtractOverflow == "attempt to subtract with overflow"

\* BinaryOp::try_from
BinaryOpTryFrom(t) ==
  IF t.cat = "SingleCharacter"
  THEN CASE t.name = "STAR" -> ROk("Multiply")
         [] t.name = "PLUS" -> ROk("Plus")
         [] t.name = "MINUS" -> ROk("Minus")
         [] t.name = "SLASH" -> ROk("Divide")
         [] t.name \in {"LESS", "GREATER"} -> RPanic(Todo)
         [] OTHER -> RPanic(Unreachable)
  ELSE IF t.cat = "MultiCharToken" THEN RPanic(Todo)
  ELSE RPanic(Unreachable)

\* BinaryOp::literal
BinaryOpLiteral(op) ==
  CASE op = "Plus" -> <<"+">>
    [] op = "Minus" -> <<"-">>
    [] op = "Multiply" -> <<"*">>
    [] op = "Divide" -> <<"/">>

\* UnaryOp::try_from
UnaryOpTryFrom(t) ==
  IF t.cat = "SingleCharacter" /\ t.name = "MINUS" THEN ROk("Negation")
  ELSE IF t.cat = "SingleCharacter" /\ t.name = "BANG" THEN ROk("LogicalNot")
  ELSE RPanic(Unreachable)

\* UnaryOp::literal
UnaryOpLiteral(op) ==
  CASE op = "Negation" -> <<"-">>
    [] op = "LogicalNot" -> <<"!">>

\* The variants of Value.  Value::Number keeps its info only: no operation of
\* the parser reads the f64 value.
ValueNumber(info) == [kind |-> "Number", info |-> info]
ValueString(value) == [kind |-> "String", value |-> value, info |-> value]
ValueBool(b) == [kind |-> "Bool", b |-> b]
ValueNil == [kind |-> "Nil"]

\* Value::try_from
ValueTryFrom(t) ==
  CASE t.cat = "String" -> ROk(ValueString(t.content))
    [] t.cat = "Number" -> ROk(ValueNumber(NumberLiteral(t)))
    [] t.cat = "Keyword" ->
         CASE t.kw = "KFalse" -> ROk(ValueBool(FALSE))
           [] t.kw = "KNil" -> ROk(ValueNil)
           [] t.kw = "KTrue" -> ROk(ValueBool(TRUE))
           [] OTHER -> RPanic(Todo)
    [] OTHER -> RErr("invalid value")

\* Value::literal
ValueLiteral(v) ==
  CASE v.kind = "Number" -> v.info
    [] v.kind = "String" -> v.info
    [] v.kind = "Bool" -> IF v.b THEN <<"t", "r", "u", "e">> ELSE <<"f", "a", "l", "s", "e">>
    [] v.kind = "Nil" -> <<"n", "i", "l">>

\* The variants of Expr.
ExprBinary(op, lhs, rhs) == [tag |-> "Binary", op |-> op, lhs |-> lhs, rhs |-> rhs]
ExprValue(v) == [tag |-> "Value", value |-> v]
ExprScope(scope_type, expr) == [tag |-> "Scope", scope_type |-> scope_type, expr |-> expr]
ExprUnary(op, operand) == [tag |-> "Unary", op |-> op, operand |-> operand]

\* Expr::new_value
NewValue(t) ==
  LET v == ValueTryFrom(t)
  IN IF v.res = "Ok" THEN ROk(ExprValue(v.val)) ELSE v

\* Expr::new_binary
NewBinary(op, lhs, rhs) ==
  IF lhs = None \/ rhs = None THEN RErr("lhs is null")
  ELSE LET l == NewValue(lhs[1])
           r == NewValue(rhs[1])
       IN IF l.res # "Ok" THEN l
          ELSE IF r.res # "Ok" THEN r
          ELSE ROk(ExprBinary(op, l.val, r.val))

\* Expr::new_scope
NewScope(scope_type, expr) == ROk(ExprScope(scope_type, expr))

\* Expr::new_unary
NewUnary(unary_type, operand) ==
  IF operand = None THEN RErr("operand is null")
  ELSE LET v == NewValue(operand[1])
       IN IF v.res # "Ok" THEN v ELSE ROk(ExprUnary(unary_type, v.val))

\* Expr::literal, with Scope::literal
RECURSIVE ExprLiteral(_)
ExprLiteral(e) ==
  CASE e.tag = "Binary" ->
         <<"(">> \o BinaryOpLiteral(e.op) \o <<" ">> \o ExprLiteral(e.lhs)
                 \o <<" ">> \o ExprLiteral(e.rhs) \o <<")">>
    [] e.tag = "Value" -> ValueLiteral(e.value)
    [] e.tag = "Scope" ->
         <<"(", "g", "r", "o", "u", "p", " ">>
           \o (IF e.expr = None THEN <<>> ELSE ExprLiteral(e.expr[1])) \o <<")">>
    [] e.tag = "Unary" ->
         <<"(">> \o UnaryOpLiteral(e.op) \o <<" ">> \o ExprLiteral(e.operand) \o <<")">>

\* The outcome of Parser::parse_expr: Ok((expr, step)) with the pending tokens
\* it leaves in parsed_tokens, an Err, or a panic.
POk(expr, step, buf) ==
  [res |-> "Ok", expr |-> expr, step |-> step, buf |-> buf, msg |-> ""]
PErr(m) == [res |-> "Err", expr |-> None, step |-> 0, buf |-> <<>>, msg |-> m]
PPanic(m) == [res |-> "Panic", expr |-> None, step |-> 0, buf |-> <<>>, msg |-> m]

\* The outcome r of an Expr constructor, returned with `?` at a step of 1.
PFrom(r, buf) == IF r.res = "Ok" THEN POk(Some(r.val), 1, buf) ELSE PErr(r.msg)

\* A vector without its last element: Vec::pop.
Pop(v) == SubSeq(v, 1, Len(v) - 1)

\* The arm Token::String | Token::Number of parse_expr.
ParseStringOrNumber(t, parsed_tokens) ==
  IF parsed_tokens = <<>> THEN PFrom(NewValue(t), parsed_tokens)
  ELSE LET v == parsed_tokens[Len(parsed_tokens)]
           lhs == IF Len(parsed_tokens) >= 2
                  THEN Some(parsed_tokens[Len(parsed_tokens) - 1]) ELSE None
       IN IF IsBinaryOp(v) /\ lhs # None /\ IsStringOrNumber(lhs[1])
          THEN LET op == BinaryOpTryFrom(v)
               IN IF op.res # "Ok" THEN PPanic(op.msg)
                  ELSE PFrom(NewBinary(op.val, lhs, Some(t)), Pop(Pop(parsed_tokens)))
          ELSE IF IsUnaryOp(v)
          THEN LET op == UnaryOpTryFrom(v)
               IN IF op.res # "Ok" THEN PPanic(op.msg)
                  ELSE PFrom(NewUnary(op.val, Some(t)), Pop(parsed_tokens))
          ELSE PErr("adjacent token before string/number is not BinaryOp")

\* The arm Token::Keyword of parse_expr.
ParseKeyword(t, parsed_tokens) ==
  CASE t.kw \in {"KFalse", "KTrue"} ->
         IF parsed_tokens # <<>> /\ IsUnaryOp(parsed_tokens[Len(parsed_tokens)])
         THEN LET op == UnaryOpTryFrom(parsed_tokens[Len(parsed_tokens)])
              IN IF op.res # "Ok" THEN PPanic(op.msg)
                 ELSE PFrom(NewUnary(op.val, Some(t)), Pop(parsed_tokens))
         ELSE PFrom(NewValue(t), parsed_tokens)
    [] t.kw = "KNil" -> PFrom(NewValue(t), parsed_tokens)
    [] OTHER -> PPanic(Todo)

\* The arm SingleCharToken::LeftParen of parse_expr, after its recursive call
\* with a fresh vector has returned `inner`.
ParseLeftParen(toks, inner, parsed_tokens) ==
  IF inner.res # "Ok" THEN inner
  ELSE IF inner.buf # <<>> THEN PErr("token left in paren")
  ELSE IF /\ 1 + inner.step < Len(toks)
          /\ IsRightParen(toks[1 + inner.step + 1])
  THEN POk(Some(NewScope("Paren", inner.expr).val), inner.step + 1 + 1, parsed_tokens)
  ELSE PErr("paren not ended")

\* Parser::parse_expr
RECURSIVE ParseExpr(_, _)
ParseExpr(toks, parsed_tokens) ==
  IF toks = <<>> THEN PPanic(IndexOutOfBounds)
  ELSE
    LET t == toks[1]
    IN CASE t.cat = "SingleCharacter" ->
              CASE t.name = "LEFT_PAREN" ->
                     ParseLeftParen(toks, ParseExpr(SliceFrom(toks, 1), <<>>),
                                    parsed_tokens)
                [] t.name = "RIGHT_PAREN" -> POk(None, 1, parsed_tokens)
                [] t.name \in {"PLUS", "MINUS", "BANG"} ->
                     POk(None, 1, Append(parsed_tokens, t))
                [] OTHER -> PPanic(Todo)
         [] t.cat = "MultiCharToken" -> POk(None, 1, Append(parsed_tokens, t))
         [] t.cat = "Ignored" -> POk(None, 1, parsed_tokens)
         [] t.cat \in {"String", "Number"} -> ParseStringOrNumber(t, parsed_tokens)
         [] t.cat = "Identifier" -> PPanic(Todo)
         [] t.cat = "Keyword" -> ParseKeyword(t, parsed_tokens)

\* Parser::collapse: the outcome, the pending toks handed back, the step
\* and the output after the call.
CollapseMatch(r, out) ==
  IF r.res # "Ok"
  THEN [res |-> r.res, t |-> None, step |-> 0, out |-> out, msg |-> r.msg]
  ELSE IF r.expr # None
  THEN [res |-> "Ok", t |-> None, step |-> r.step,
        out |-> Append(out, r.expr[1]), msg |-> ""]
  ELSE IF r.buf = <<>>
  THEN [res |-> "Err", t |-> None, step |-> 0, out |-> out,
        msg |-> "no expr or token produced when parsing expr"]
  ELSE [res |-> "Ok", t |-> Some(r.buf), step |-> r.step, out |-> out, msg |-> ""]

Collapse(toks, wt, out) ==
  CollapseMatch(ParseExpr(toks, IF wt = None THEN <<>> ELSE wt[1]), out)

\* The tokens the parser is run on, as the lexer makes them.
LeftParen == SingleCharToken(1)
RightParen == SingleCharToken(2)
Star == SingleCharToken(5)
Plus == SingleCharToken(8)
Minus == SingleCharToken(9)
Slash == SingleCharToken(10)
Bang == SingleCharToken(13)
Less == SingleCharToken(14)
Greater == SingleCharToken(15)
EqualEqual == MultiCharToken(1)
BangEqual == MultiCharToken(2)
LessEqual == MultiCharToken(3)
GreaterEqual == MultiCharToken(4)
KFalse == KeywordToken(4)
KNil == KeywordToken(8)
KPrint == KeywordToken(10)
KTrue == KeywordToken(14)
Num(d) == NumberToken(<<0, d>>, 1, None)
OneAndHalf == NumberToken(<<0, 1>>, 1, Some(<<<<"5">>, <<0, 5>>>>))
StringA == StringToken(<<"a">>)

TokenAlphabet ==
  {Num(1), StringA, KTrue, KNil, LeftParen, RightParen,
   Plus, Minus, Star, Bang, EqualEqual, Less}

TokenSamples ==
  { <<LeftParen, Num(1), Plus, Num(2), RightParen, Star, Num(3)>>,
    <<Bang, KFalse>>,
    <<Minus, KFalse>>,
    <<KFalse>>,
    <<Num(1), Slash, Num(2)>>,
    <<Num(1), BangEqual, Num(2)>>,
    <<Num(1), LessEqual, Num(2)>>,
    <<Num(1), Greater, Num(2)>>,
    <<Num(1), GreaterEqual, Num(2)>>,
    <<Bang, Bang, Bang, KTrue>>,
    <<Minus, Minus, Minus, OneAndHalf>>,
    <<LeftParen, LeftParen, Num(1), RightParen, RightParen>>,
    <<LeftParen, Bang, KTrue, RightParen>>,
    <<LeftParen, Num(1), RightParen, RightParen>>,
    <<Num(1), Plus, Num(2), Star, Num(3)>>,
    <<IdentifierToken(<<"x">>)>>,
    <<KPrint, Num(1)>> }

TokenInputs == SeqsUpTo(TokenAlphabet, MaxTokens) \cup TokenSamples

\* Parser.length
p_length == Len(p_input)

\* No Lexer is running.
LexerIdle ==
  /\ input = <<>>
  /\ pos = 0
  /\ line_idx = 1
  /\ tokens = <<>>
  /\ has_error = FALSE
  /\ pc = "idle"
  /\ error = None
  /\ stderr = <<>>
  /\ stdout = <<>>
  /\ exit_code = None
  /\ last = [at |-> 0, res |-> "Start"]
  /\ spans = <<>>
  /\ diag_at = <<>>

\* Parser::new, and the first line of Parser::parse.
ParserInit ==
  /\ LexerIdle
  /\ p_input \in TokenInputs
  /\ p_pos = 0
  /\ begin = 0
  /\ output = <<>>
  /\ curr = <<>>
  /\ with_tokens = None
  /\ p_pc = "parse"
  /\ p_error = None
  /\ p_stdout = <<>>

\* Parser::finished computes self.length - 1 in usize: it overflows when the
\* input is empty.
FinishedOverflows == p_length = 0

\* Parser::finished.  Where the subtraction wraps, length - 1 is usize::MAX and
\* no cursor is greater.
Finished ==
  IF FinishedOverflows THEN FALSE
  ELSE begin > p_length - 1 /\ p_pos > p_length - 1

\* self.collapse(&self.input[self.begin..], with_tokens) in Parser::parse.
Collapsed ==
  IF begin > p_length
  THEN [res |-> "Panic", t |-> None, step |-> 0, out |-> output,
        msg |-> IndexOutOfBounds]
  ELSE Collapse(SliceFrom(p_input, begin), with_tokens, output)

\* One iteration of the loop of Parser::parse in which collapse returns Ok
\* with a step above 0.
ParseIteration ==
  /\ p_pc = "parse"
  /\ ~Finished
  /\ \E c \in {Collapsed} :
       /\ c.res = "Ok"
       /\ c.step > 0
       /\ with_tokens' = c.t
       /\ output' = c.out
       /\ begin' = begin + c.step
       /\ p_pos' = p_pos + c.step
  /\ UNCHANGED <<p_input, curr, p_pc, p_error, p_stdout>>
  /\ UNCHANGED lvars

\* The iteration in which collapse returns Err (the `?` returns it from
\* parse), or a step of 0 (bail!("?????")).
ParseBail ==
  /\ p_pc = "parse"
  /\ ~Finished
  /\ \E c \in {Collapsed} :
       /\ c.res = "Err" \/ (c.res = "Ok" /\ c.step = 0)
       /\ p_error' = Some(IF c.res = "Err" THEN c.msg ELSE "?????")
       /\ output' = c.out
  /\ p_pc' = "err"
  /\ UNCHANGED <<p_input, p_pos, begin, curr, with_tokens, p_stdout>>
  /\ UNCHANGED lvars

\* The iteration in which collapse panics.
ParsePanic ==
  /\ p_pc = "parse"
  /\ ~Finished
  /\ \E c \in {Collapsed} :
       /\ c.res = "Panic"
       /\ p_error' = Some(c.msg)
  /\ p_pc' = "panicked"
  /\ UNCHANGED <<p_input, p_pos, begin, output, curr, with_tokens, p_stdout>>
  /\ UNCHANGED lvars

\* Parser::finished where overflow is checked: the subtraction panics.
FinishedPanic ==
  /\ p_pc = "parse"
  /\ FinishedOverflows
  /\ p_pc' = "panicked"
  /\ p_error' = Some(SubtractOverflow)
  /\ UNCHANGED <<p_input, p_pos, begin, output, curr, with_tokens, p_stdout>>
  /\ UNCHANGED lvars

\* Expr::new_value of each token of a vector, pushed to out in order.
RECURSIVE PushValues(_, _)
PushValues(out, ts) ==
  IF ts = <<>> THEN ROk(out)
  ELSE LET v == NewValue(ts[1])
       IN IF v.res # "Ok" THEN v ELSE PushValues(Append(out, v.val), Tail(ts))

\* The end of Parser::parse: the loop over self.curr, then Ok(()).
ParseReturn ==
  /\ p_pc = "parse"
  /\ Finished
  /\ \E r \in {PushValues(output, curr)} :
        /\ p_pc' = CASE r.res = "Ok" -> "ok"
                     [] r.res = "Err" -> "err"
                     [] r.res = "Panic" -> "panicked"
        /\ p_error' = IF r.res = "Ok" THEN None ELSE Some(r.msg)
        /\ output' = IF r.res = "Ok" THEN r.val ELSE output
  /\ UNCHANGED <<p_input, p_pos, begin, curr, with_tokens, p_stdout>>
  /\ UNCHANGED lvars

\* Parser::print_info, called once parse has returned Ok.
PrintInfo ==
  /\ p_pc = "ok"
  /\ p_stdout' = p_stdout \o [i \in 1..Len(output) |-> ExprLiteral(output[i])]
  /\ p_pc' = "printed"
  /\ UNCHANGED <<p_input, p_pos, begin, output, curr, with_tokens, p_error>>
  /\ UNCHANGED lvars

ParserNext ==
  \/ ParseIteration
  \/ ParseBail
  \/ ParsePanic
  \/ FinishedPanic
  \/ ParseReturn
  \/ PrintInfo

SpecParser == ParserInit /\ [][ParserNext]_vars

\* Parser::parse has returned or panicked; it has returned Ok.
ParserDone == p_pc \in {"ok", "err", "panicked", "printed"}
ParsedOk == p_pc \in {"ok", "printed"}

\* ---------------------------------------------------------------------------
\* Claims about the parser, checked under SpecParser.

\* A literal token: a number, a string, true, false or nil.
IsLiteral(t) ==
  \/ IsStringOrNumber(t)
  \/ t.cat = "Keyword" /\ t.kw \in {"KTrue", "KFalse", "KNil"}

\* The Literal node of a literal token.
Literal(t) == NewValue(t).val

\* C12: for every token sequence `L op R` in which L and R are number or
\* string literals and op is a binary operator the folder converts (+, -, *,
\* /), Parser::parse returns Ok with exactly one output expression,
\* Binary(op, Literal(L), Literal(R)); L is never emitted as a top-level
\* expression of its own.
IsBinaryInput ==
  /\ Len(p_input) = 3
  /\ IsStringOrNumber(p_input[1])
  /\ IsStringOrNumber(p_input[3])
  /\ BinaryOpTryFrom(p_input[2]).res = "Ok"

BinaryOf(toks) ==
  ExprBinary(BinaryOpTryFrom(toks[2]).val, Literal(toks[1]), Literal(toks[3]))

C12_BinaryFold ==
  IsBinaryInput =>
    /\ output \in {<<>>, <<BinaryOf(p_input)>>}
    /\ ParserDone => ParsedOk /\ output = <<BinaryOf(p_input)>>

\* C13: for the tokens of `(1 + 2) * 3` Parser::parse returns Ok with a single
\* expression that prints as `(* (group (+ 1.0 2.0)) 3.0)`: the parenthesised
\* slice is parsed as a whole and is the left operand of the outer `*`.
GroupedSum == <<LeftParen, Num(1), Plus, Num(2), RightParen, Star, Num(3)>>

GroupedSumText ==
  <<"(", "*", " ", "(", "g", "r", "o", "u", "p", " ", "(", "+", " ",
    "1", ".", "0", " ", "2", ".", "0", ")", ")", " ", "3", ".", "0", ")">>

C13_GroupedOperand ==
  p_input = GroupedSum /\ ParserDone =>
    /\ ParsedOk
    /\ Len(output) = 1
    /\ ExprLiteral(output[1]) = GroupedSumText
    /\ p_pc = "printed" => p_stdout = <<GroupedSumText>>

\* C14: for every token sequence of k >= 1 prefix unary operators (`!`, `-`)
\* followed by one literal, Parser::parse returns Ok with exactly one output
\* expression: k nested Unary nodes around the literal, one per operator.
IsUnaryChain(toks) ==
  /\ Len(toks) >= 2
  /\ \A i \in 1..(Len(toks) - 1) : IsUnaryOp(toks[i])
  /\ IsLiteral(toks[Len(toks)])

RECURSIVE UnaryChain(_)
UnaryChain(toks) ==
  IF Len(toks) = 1 THEN Literal(toks[1])
  ELSE ExprUnary(UnaryOpTryFrom(toks[1]).val, UnaryChain(Tail(toks)))

C14_RepeatedUnary ==
  IsUnaryChain(p_input) /\ ParserDone =>
    ParsedOk /\ output = <<UnaryChain(p_input)>>

\* C15: whenever Parser::parse returns Ok, the pending-operator buffer it
\* carried through the loop is empty: an operator left unresolved when both
\* cursors reach the end of the tokens is an error, not Ok.
C15_UnresolvedOperator == ParsedOk => with_tokens = None

\* C16: for every token sequence that has a `(` without a matching `)`,
\* Parser::parse returns an error value: it neither returns Ok nor panics.
\* So does a group that is closed while an operator is pending inside it.
RECURSIVE OpenAtEnd(_, _)
OpenAtEnd(toks, depth) ==
  IF toks = <<>> THEN depth
  ELSE IF toks[1] = LeftParen THEN OpenAtEnd(Tail(toks), depth + 1)
  ELSE IF IsRightParen(toks[1]) /\ depth > 0 THEN OpenAtEnd(Tail(toks), depth - 1)
  ELSE OpenAtEnd(Tail(toks), depth)

HasUnclosedParen(toks) == OpenAtEnd(toks, 0) > 0

ClosedOnPending(toks) ==
  /\ Len(toks) = 3
  /\ toks[1] = LeftParen
  /\ IsBinaryOp(toks[2]) \/ IsUnaryOp(toks[2])
  /\ IsRightParen(toks[3])

C16_MissingParen ==
  (HasUnclosedParen(p_input) \/ ClosedOnPending(p_input)) /\ ParserDone
    => p_pc = "err"

\* C17: in every iteration of Parser::parse that meets a literal token (a
\* number, a string, true, false or nil) while the last pending operator is
\* `!` or `-`, the expression pushed to the output is Unary(op, Literal): the
\* operator is not dropped and the literal is not pushed bare.
PendingUnary ==
  /\ p_pc = "parse"
  /\ with_tokens # None
  /\ IsUnaryOp(with_tokens[1][Len(with_tokens[1])])
  /\ begin < p_length
  /\ IsLiteral(p_input[begin + 1])

UnaryOfPending ==
  ExprUnary(UnaryOpTryFrom(with_tokens[1][Len(with_tokens[1])]).val,
            Literal(p_input[begin + 1]))

C17_LiteralClosesUnary ==
  [][PendingUnary => output' = Append(output, UnaryOfPending)]_vars

\* C18: Parser::parse on the empty token sequence neither panics nor fails; at
\* every point of the loop begin = pos and neither is above the length of the
\* input; every iteration advances both by the same step >= 1; on Ok both are
\* the length of the input.
C18_Cursors ==
  /\ p_length = 0 => p_pc \notin {"panicked", "err"}
  /\ begin = p_pos
  /\ begin <= p_length
  /\ ParsedOk => begin = p_length /\ p_pos = p_length

C18_Advance ==
  [][p_pc = "parse" /\ p_pc' = "parse"
       => begin' - begin = p_pos' - p_pos /\ begin' - begin >= 1]_vars

C18_Terminates == C18_Advance /\ []C18_Cursors

\* C19: for every non-empty token sequence of literals, `(`, `)` and the
\* operators == != < <= > >= + - * / !, Parser::parse ends with Ok or with a
\* returned error: it never panics.
IsGrammarToken(t) ==
  \/ IsLiteral(t)
  \/ t.cat = "MultiCharToken"
  \/ /\ t.cat = "SingleCharacter"
     /\ t.name \in {"LEFT_PAREN", "RIGHT_PAREN", "LESS", "GREATER",
                    "PLUS", "MINUS", "STAR", "SLASH", "BANG"}

InGrammar(toks) == \A i \in 1..Len(toks) : IsGrammarToken(toks[i])

C19_ErrorsAreValues ==
  p_length > 0 /\ InGrammar(p_input) => p_pc # "panicked"

\* C20: every Grouping node of the output holds an inner expression;
\* `( literal )` yields Grouping(Literal) and consumes its three tokens; a
\* token sequence with a `)` that closes no `(` is never accepted with Ok.
RECURSIVE NoEmptyGroup(_)
NoEmptyGroup(e) ==
  CASE e.tag = "Binary" -> NoEmptyGroup(e.lhs) /\ NoEmptyGroup(e.rhs)
    [] e.tag = "Value" -> TRUE
    [] e.tag = "Scope" -> e.expr # None /\ NoEmptyGroup(e.expr[1])
    [] e.tag = "Unary" -> NoEmptyGroup(e.operand)

RECURSIVE SurplusClose(_, _)
SurplusClose(toks, depth) ==
  IF toks = <<>> THEN FALSE
  ELSE IF toks[1] = LeftParen THEN SurplusClose(Tail(toks), depth + 1)
  ELSE IF IsRightParen(toks[1])
       THEN depth = 0 \/ SurplusClose(Tail(toks), depth - 1)
  ELSE SurplusClose(Tail(toks), depth)

IsGroupedLiteral(toks) ==
  /\ Len(toks) = 3
  /\ toks[1] = LeftParen
  /\ IsLiteral(toks[2])
  /\ IsRightParen(toks[3])

C20_MatchedParens ==
  /\ \A i \in 1..Len(output) : NoEmptyGroup(output[i])
  /\ IsGroupedLiteral(p_input) /\ ParserDone =>
       /\ ParsedOk
       /\ output = <<ExprScope("Paren", Some(Literal(p_input[2])))>>
       /\ begin = 3
  /\ SurplusClose(p_input, 0) => ~ParsedOk

\* ---------------------------------------------------------------------------
\* C21: Lexer::tokenize terminates: every iteration of its loop that goes on
\* to another one strictly increases the scan position, and once the loop is
\* left either the position is at or beyond the length of the input or
\* tokenize has returned the unterminated-string error.
C21_Advances == [][pc = "tokenize" /\ pc' = "tokenize" => pos' > pos]_vars

C21_LoopLeft ==
  pc \notin {"tokenize", "idle"}
    => \/ pos >= length
       \/ error # None /\ error[1].kind = "UnterminatedString"

C21_Terminates == C21_Advances /\ []C21_LoopLeft

\* ---------------------------------------------------------------------------
\* C22: the integer part a Number token stores is the decimal value of the
\* digit run it was scanned from, and the fraction value it stores is the
\* decimal value of the digits after the dot, whatever the length of the
\* run: the u32 accumulation neither panics on overflow nor wraps.

\* The decimal text of the value of a digit string.
DecimalOf(d) ==
  IF StripLeadingZeros(d) = <<>> THEN <<"0">> ELSE StripLeadingZeros(d)

NumberSource(i) == Source(spans[i][1], spans[i][2])

C22_StoredValue ==
  \A i \in 1..Len(tokens) :
    tokens[i].cat = "Number"
      => /\ U32ToString(tokens[i].integer) = DecimalOf(IntegerDigits(NumberSource(i)))
         /\ tokens[i].decimal # None
              => U32ToString(tokens[i].decimal[1][2])
                   = DecimalOf(FractionDigits(NumberSource(i)))

C22_NoOverflow ==
  /\ pc # "panicked"
  /\ C22_StoredValue

====
